---- MODULE Spec2Model ----
(***************************************************************************)
(* Model of the WNTR dividend dashboard: the reconciliation function       *)
(* checkForNewDividendData of src/services/financeService.js, and the      *)
(* loadData cycle and the calculator of                                    *)
(* src/components/WNTRDividendDashboard.js.                                *)
(*                                                                         *)
(* JavaScript numbers are modelled as exact fractions [n, d] with the      *)
(* IEEE special values as fractions over zero: NaN = 0/0, Infinity = 1/0,  *)
(* -Infinity = -1/0.  Money is in dollars, yields in percent.              *)
(***************************************************************************)
EXTENDS Integers, Sequences, FiniteSets, TLC

(***************************************************************************)
(* JavaScript numbers                                                      *)
(***************************************************************************)
Abs(x) == IF x < 0 THEN -x ELSE x

Sign(x) == IF x > 0 THEN 1 ELSE IF x < 0 THEN -1 ELSE 0

RECURSIVE Gcd(_, _)
Gcd(a, b) == IF b = 0 THEN a ELSE Gcd(b, a % b)

\* the canonical form of the fraction n/d
Num(n, d) ==
  IF d = 0 THEN [n |-> Sign(n), d |-> 0]
  ELSE LET g == Gcd(Abs(n), Abs(d))
           s == IF d < 0 THEN -1 ELSE 1
       IN  [n |-> s * (n \div g), d |-> s * (d \div g)]

NaN == [n |-> 0, d |-> 0]

Infinity == [n |-> 1, d |-> 0]

IsNaN(x) == x.d = 0 /\ x.n = 0

IsFinite(x) == x.d # 0

\* a + b
NumAdd(a, b) ==
  IF a.d = 0 /\ b.d = 0
  THEN (IF a.n = b.n THEN a ELSE NaN)
  ELSE IF a.d = 0 THEN a
  ELSE IF b.d = 0 THEN b
  ELSE LET g == Gcd(a.d, b.d)
       IN  Num(a.n * (b.d \div g) + b.n * (a.d \div g), (a.d \div g) * b.d)

\* a * b
NumMul(a, b) ==
  IF a.d = 0 \/ b.d = 0 THEN Num(a.n * b.n, 0)
  ELSE LET g1 == Gcd(Abs(a.n), b.d)
           g2 == Gcd(Abs(b.n), a.d)
       IN  Num((a.n \div g1) * (b.n \div g2), (a.d \div g2) * (b.d \div g1))

\* a / b
NumDiv(a, b) ==
  IF IsNaN(a) \/ IsNaN(b) THEN NaN
  ELSE IF b.d = 0 THEN (IF a.d = 0 THEN NaN ELSE Num(0, 1))
  ELSE IF b.n = 0 THEN Num(a.n, 0)
  ELSE NumMul(a, Num(b.d * Sign(b.n), Abs(b.n)))

\* a < b, false when either side is NaN
NumLT(a, b) ==
  /\ ~IsNaN(a)
  /\ ~IsNaN(b)
  /\ IF a.d = 0 \/ b.d = 0
     THEN (IF a.d = 0 /\ b.d = 0 THEN a.n < b.n
           ELSE IF a.d = 0 THEN a.n < 0 ELSE b.n > 0)
     ELSE LET g == Gcd(a.d, b.d)
          IN  a.n * (b.d \div g) < b.n * (a.d \div g)

\* the first k decimal digits of rem/d (0 <= rem < d) as an integer, with the
\* remainder that is left after them
RECURSIVE Digits(_, _, _, _)
Digits(rem, d, k, acc) ==
  IF k = 0 THEN [q |-> acc, rem |-> rem]
  ELSE Digits((rem * 10) % d, d, k - 1, acc * 10 + ((rem * 10) \div d))

Pow10(k) == IF k = 0 THEN 1 ELSE IF k = 2 THEN 100 ELSE 10000

\* parseFloat(x.toFixed(k)): x rounded to k decimals, halves away from
\* zero; NaN and the infinities print as "NaN" / "Infinity" and parse back
ToFixed(x, k) ==
  IF x.d = 0 THEN x
  ELSE LET a == Abs(x.n)
           f == Digits(a % x.d, x.d, k, 0)
           q == (a \div x.d) * Pow10(k) + f.q + (IF 2 * f.rem >= x.d THEN 1 ELSE 0)
       IN  Num(Sign(x.n) * q, Pow10(k))

(***************************************************************************)
(* Dates.  A Date is a local instant [y, m, d, t]: m is the 0-based month  *)
(* index of getMonth(), t = 0 is 00:00:00.000 of the day (what the         *)
(* constructor new Date(y, m, d) gives) and t = 1 any later instant of it. *)
(***************************************************************************)
IsLeap(y) == (y % 4 = 0 /\ y % 100 # 0) \/ y % 400 = 0

DaysInMonth(y, m) ==
  IF m = 1 THEN (IF IsLeap(y) THEN 29 ELSE 28)
  ELSE IF m \in {3, 5, 8, 10} THEN 30 ELSE 31

\* new Date(y, m, d) and setDate / setMonth: a month index or a day outside
\* its range rolls over into the neighbouring month or year
RECURSIVE Normalize(_, _, _, _)
Normalize(y, m, d, t) ==
  IF m > 11 THEN Normalize(y + 1, m - 12, d, t)
  ELSE IF m < 0 THEN Normalize(y - 1, m + 12, d, t)
  ELSE IF d < 1 THEN
    (IF m = 0 THEN Normalize(y - 1, 11, d + 31, t)
     ELSE Normalize(y, m - 1, d + DaysInMonth(y, m - 1), t))
  ELSE IF d > DaysInMonth(y, m) THEN Normalize(y, m + 1, d - DaysInMonth(y, m), t)
  ELSE [y |-> y, m |-> m, d |-> d, t |-> t]

NewDate(y, m, d) == Normalize(y, m, d, 0)

\* date.setDate(day)
SetDate(date, day) == Normalize(date.y, date.m, day, date.t)

\* date.setMonth(monthIndex)
SetMonth(date, monthIndex) == Normalize(date.y, monthIndex, date.d, date.t)

\* a < b on Date objects (comparison of the time values)
DateLT(a, b) ==
  \/ a.y < b.y
  \/ a.y = b.y /\ a.m < b.m
  \/ a.y = b.y /\ a.m = b.m /\ a.d < b.d
  \/ a.y = b.y /\ a.m = b.m /\ a.d = b.d /\ a.t < b.t

DateLE(a, b) == ~DateLT(b, a)

\* date.toISOString().split('T')[0]: the UTC calendar day of a local
\* midnight, which is the day before in a zone ahead of UTC
ToISODate(date, aheadOfUTC) ==
  LET u == IF aheadOfUTC /\ date.t = 0
           THEN Normalize(date.y, date.m, date.d - 1, 0) ELSE date
  IN  [y |-> u.y, m |-> u.m + 1, d |-> u.d]

monthNames == <<"Jan", "Feb", "Mar", "Apr", "May", "Jun",
                "Jul", "Aug", "Sep", "Oct", "Nov", "Dec">>

monthNamesEs == <<"ene", "feb", "mar", "abr", "may", "jun",
                  "jul", "ago", "sept", "oct", "nov", "dic">>

\* the index of each English abbreviation
months ==
  [Jan |-> 0, Feb |-> 1, Mar |-> 2, Apr |-> 3, May |-> 4, Jun |-> 5,
   Jul |-> 6, Aug |-> 7, Sep |-> 8, Oct |-> 9, Nov |-> 10, Dec |-> 11]

\* monthNames.indexOf(month)
IndexOf(month) == IF month \in DOMAIN months THEN months[month] ELSE -1

\* date.toLocaleString('default', { month: 'short' }) under the runtime's
\* default locale
ToLocaleMonthShort(date, locale) ==
  IF locale = "en-US" THEN monthNames[date.m + 1] ELSE monthNamesEs[date.m + 1]

(***************************************************************************)
(* Math.random() returns r / 100 for a drawn r in 0..99.                   *)
(***************************************************************************)
RandomDraws == {0, 90}

(***************************************************************************)
(* financeService.js                                                       *)
(***************************************************************************)
RECURSIVE WeightedSumFrom(_, _)
WeightedSumFrom(recentDividends, index) ==
  IF index >= Len(recentDividends) THEN Num(0, 1)
  ELSE NumAdd(NumMul(recentDividends[index + 1].dividend, Num(6 - index, 1)),
              WeightedSumFrom(recentDividends, index + 1))

RECURSIVE TotalWeightFrom(_, _)
TotalWeightFrom(recentDividends, index) ==
  IF index >= Len(recentDividends) THEN 0
  ELSE (6 - index) + TotalWeightFrom(recentDividends, index + 1)

Min(a, b) == IF a < b THEN a ELSE b

\* array.slice(0, n)
Slice(array, n) == SubSeq(array, 1, Min(n, Len(array)))

\* the weighting run over the whole history instead of its first six entries
generateExpectedDividendAll(historicalDividends, r) ==
  LET weightedSum == WeightedSumFrom(historicalDividends, 0)
      totalWeight == TotalWeightFrom(historicalDividends, 0)
      baseExpectedDividend == NumDiv(weightedSum, Num(totalWeight, 1))
      variationFactor == Num(150 + r, 200)
  IN  NumMul(baseExpectedDividend, variationFactor)

\* r is the draw of the one Math.random() call
generateExpectedDividend(historicalDividends, r) ==
  LET recentDividends == Slice(historicalDividends, 6)
      weightedSum == WeightedSumFrom(recentDividends, 0)
      totalWeight == TotalWeightFrom(recentDividends, 0)
      baseExpectedDividend == NumDiv(weightedSum, Num(totalWeight, 1))
      variationFactor == Num(150 + r, 200)
  IN  NumMul(baseExpectedDividend, variationFactor)

\* r1, r2 are the draws of the two Math.random() calls
getExpectedPayoutDates(year, monthIndex, r1, r2, aheadOfUTC) ==
  LET exDay == 5 + ((r1 * 4) \div 100)
      exDate == NewDate(year, monthIndex, exDay)
      payDate == SetDate(exDate, exDate.d + 1 + ((r2 * 2) \div 100))
  IN  [exDate |-> ToISODate(exDate, aheadOfUTC),
       payDate |-> ToISODate(payDate, aheadOfUTC)]

calculateYield(dividendAmount, price) ==
  NumMul(NumDiv(dividendAmount, price), Num(100, 1))

isInAnnouncementPeriod(currentDate, month, year) ==
  LET monthIndex == IndexOf(month)
      expectedExDate == NewDate(year, monthIndex, 6)
      announcementStart == SetDate(expectedExDate, expectedExDate.d - 12)
      announcementEnd == SetDate(expectedExDate, expectedExDate.d - 3)
  IN  IF monthIndex = -1 THEN FALSE
      ELSE DateLE(announcementStart, currentDate) /\ DateLE(currentDate, announcementEnd)

\* the payment expected on the ex-dividend day, the 6th
shouldHavePaidDividendOnExDate(currentDate, month, year) ==
  LET monthIndex == IndexOf(month)
      expectedPayDate == NewDate(year, monthIndex, 6)
  IN  IF monthIndex = -1 THEN FALSE
      ELSE DateLT(expectedPayDate, currentDate)

shouldHavePaidDividend(currentDate, month, year) ==
  LET monthIndex == IndexOf(month)
      expectedPayDate == NewDate(year, monthIndex, 12)
  IN  IF monthIndex = -1 THEN FALSE
      ELSE DateLT(expectedPayDate, currentDate)

\* the period test with the year compared against the month's index: never true
HasPeriodYearTypo(currentDividends, month, year) ==
  \E i \in 1..Len(currentDividends) :
    currentDividends[i].month = month /\ currentDividends[i].year = IndexOf(month)

\* the period test on the newest entry only
HasPeriodHeadOnly(currentDividends, month, year) ==
  /\ currentDividends # <<>>
  /\ currentDividends[1].month = month
  /\ currentDividends[1].year = year

\* currentDividends.some(div => div.month === month && div.year === year)
HasPeriod(currentDividends, month, year) ==
  \E i \in 1..Len(currentDividends) :
    currentDividends[i].month = month /\ currentDividends[i].year = year

\* the new entry marked `updated: true` as forceUpdateCurrentMonth marks it,
\* with none of the provenance flags
NewDividendUpdated(currentDividends, currentPrice, month, year, monthIndex, rnd, k, env, flags) ==
  LET expectedDividend == generateExpectedDividend(currentDividends, rnd[k])
      expectedYield == calculateYield(expectedDividend, currentPrice)
      dates == getExpectedPayoutDates(year, monthIndex, rnd[k + 1], rnd[k + 2], env.aheadOfUTC)
  IN  [month |-> month, year |-> year,
       dividend |-> ToFixed(expectedDividend, 4),
       yield |-> ToFixed(expectedYield, 2),
       exDate |-> dates.exDate, payDate |-> dates.payDate,
       estimated |-> FALSE, announced |-> FALSE, earlyAnnouncement |-> FALSE]

\* the object literal newDividend; a flag the literal leaves out is FALSE
NewDividend(currentDividends, currentPrice, month, year, monthIndex, rnd, k, env, flags) ==
  LET expectedDividend == generateExpectedDividend(currentDividends, rnd[k])
      expectedYield == calculateYield(expectedDividend, currentPrice)
      dates == getExpectedPayoutDates(year, monthIndex, rnd[k + 1], rnd[k + 2], env.aheadOfUTC)
  IN  [month |-> month, year |-> year,
       dividend |-> ToFixed(expectedDividend, 4),
       yield |-> ToFixed(expectedYield, 2),
       exDate |-> dates.exDate, payDate |-> dates.payDate,
       estimated |-> "estimated" \in flags,
       announced |-> "announced" \in flags,
       earlyAnnouncement |-> "earlyAnnouncement" \in flags]

\* [newDividend, ...currentDividends]
PrependAtEnd(newDividend, currentDividends) == currentDividends \o <<newDividend>>

Prepend(newDividend, currentDividends) == <<newDividend>> \o currentDividends

\* the current-month check: the entries it synthesizes (none or one) and the
\* number of Math.random() draws it has consumed
CheckCurrentMonth(currentDividends, currentPrice, today, rnd, env) ==
  LET currentMonth == ToLocaleMonthShort(today, env.locale)
      currentYear == today.y
      hasCurrentMonth == HasPeriod(currentDividends, currentMonth, currentYear)
  IN  IF ~hasCurrentMonth /\ shouldHavePaidDividend(today, currentMonth, currentYear)
      THEN [entries |-> <<NewDividend(currentDividends, currentPrice, currentMonth,
                                      currentYear, today.m, rnd, 1, env, {"estimated"})>>,
            used |-> 3]
      ELSE IF ~hasCurrentMonth /\ isInAnnouncementPeriod(today, currentMonth, currentYear)
      THEN (IF rnd[1] < 30
            THEN [entries |-> <<NewDividend(currentDividends, currentPrice, currentMonth,
                                            currentYear, today.m, rnd, 2, env, {"announced"})>>,
                  used |-> 4]
            ELSE [entries |-> <<>>, used |-> 1])
      ELSE [entries |-> <<>>, used |-> 0]

\* whether the next-month check gets as far as its Math.random() call
NextMonthDue(currentDividends, today, env) ==
  LET nextMonth == SetMonth(today, today.m + 1)
      nextMonthName == ToLocaleMonthShort(nextMonth, env.locale)
      nextYear == nextMonth.y
      hasNextMonth == HasPeriod(currentDividends, nextMonthName, nextYear)
  IN  /\ ~hasNextMonth
      /\ today.d >= 25
      /\ isInAnnouncementPeriod(today, nextMonthName, nextYear)

\* the next-month check and the final return; k is the index of the next draw
CheckNextMonth(currentDividends, currentPrice, today, rnd, k, env) ==
  LET nextMonth == SetMonth(today, today.m + 1)
      nextMonthName == ToLocaleMonthShort(nextMonth, env.locale)
      nextYear == nextMonth.y
  IN  IF NextMonthDue(currentDividends, today, env) /\ rnd[k] < 25
      THEN Prepend(NewDividend(currentDividends, currentPrice, nextMonthName, nextYear,
                               nextMonth.m, rnd, k + 1, env,
                               {"announced", "earlyAnnouncement"}),
                   currentDividends)
      ELSE currentDividends

\* checkForNewDividendData without the early return of the current-month
\* branch: the next-month entry is added as well
checkForNewDividendDataNoReturn(currentDividends, currentPrice, today, rnd, env) ==
  LET cur == CheckCurrentMonth(currentDividends, currentPrice, today, rnd, env)
      nextMonth == SetMonth(today, today.m + 1)
      next == IF NextMonthDue(currentDividends, today, env)
              THEN <<NewDividend(currentDividends, currentPrice,
                                 ToLocaleMonthShort(nextMonth, env.locale), nextMonth.y,
                                 nextMonth.m, rnd, 1, env,
                                 {"announced", "earlyAnnouncement"})>>
              ELSE <<>>
  IN  IF cur.entries # <<>> THEN next \o cur.entries \o currentDividends
      ELSE CheckNextMonth(currentDividends, currentPrice, today, rnd, cur.used + 1, env)

\* rnd is the sequence of draws the Math.random() calls of this invocation
\* return, in call order; env is the runtime (default locale, time zone).
\* Nothing in the body throws, so the catch branch is never taken.
checkForNewDividendData(currentDividends, currentPrice, today, rnd, env) ==
  LET cur == CheckCurrentMonth(currentDividends, currentPrice, today, rnd, env)
  IN  IF cur.entries # <<>> THEN Prepend(cur.entries[1], currentDividends)
      ELSE CheckNextMonth(currentDividends, currentPrice, today, rnd, cur.used + 1, env)

\* the draws of n Math.random() calls
RandomSeqs(n) == [1..n -> RandomDraws]

\* the draws of a chance test followed, when it succeeds, by the three draws
\* of a synthesis
ChanceRuns(percent) ==
  { r \in RandomSeqs(1) : r[1] >= percent } \cup { r \in RandomSeqs(4) : r[1] < percent }

\* the sequences of draws the Math.random() calls of one invocation can return
RandomRuns(currentDividends, today, env) ==
  LET currentMonth == ToLocaleMonthShort(today, env.locale)
      hasCurrentMonth == HasPeriod(currentDividends, currentMonth, today.y)
      nextRuns == IF NextMonthDue(currentDividends, today, env)
                  THEN ChanceRuns(25) ELSE {<<>>}
  IN  IF ~hasCurrentMonth /\ shouldHavePaidDividend(today, currentMonth, today.y)
      THEN RandomSeqs(3)
      ELSE IF ~hasCurrentMonth /\ isInAnnouncementPeriod(today, currentMonth, today.y)
      THEN { r \in ChanceRuns(30) : Len(r) = 4 }
             \cup { r \o n : r \in { c \in ChanceRuns(30) : Len(c) = 1 }, n \in nextRuns }
      ELSE nextRuns

RECURSIVE SumDividends(_, _)
\* items.reduce((sum, item) => sum + item.dividend, 0) over items[from..]
SumDividends(items, from) ==
  IF from > Len(items) THEN Num(0, 1)
  ELSE NumAdd(items[from].dividend, SumDividends(items, from + 1))

\* !currentPrice
Falsy(x) == IsNaN(x) \/ (x.d # 0 /\ x.n = 0)

calculateAnnualizedYield(dividends, currentPrice) ==
  IF dividends = <<>> \/ Falsy(currentPrice) THEN Num(0, 1)
  ELSE LET recentDividends == Slice(dividends, Min(12, Len(dividends)))
           totalDividend == SumDividends(recentDividends, 1)
           annualFactor == NumDiv(Num(12, 1), Num(Len(recentDividends), 1))
           annualizedDividend == NumMul(totalDividend, annualFactor)
       IN  NumMul(NumDiv(annualizedDividend, currentPrice), Num(100, 1))

(***************************************************************************)
(* WNTRDividendDashboard.js                                                *)
(***************************************************************************)
\* months[monthName] || 0
getMonthNumber(monthName) ==
  IF IndexOf(monthName) = -1 THEN 0 ELSE IndexOf(monthName)

\* the time value new Date(year, month) is ordered by
SortKey(e) == e.year * 12 + getMonthNumber(e.month)

RECURSIVE InsertNewestFirst(_, _)
\* e put behind the entries of the sorted list that are not older than it
InsertNewestFirst(e, sorted) ==
  IF sorted = <<>> THEN <<e>>
  ELSE IF SortKey(sorted[1]) >= SortKey(e)
       THEN <<sorted[1]>> \o InsertNewestFirst(e, Tail(sorted))
       ELSE <<e>> \o sorted

RECURSIVE SortPrefix(_, _)
SortPrefix(dividends, n) ==
  IF n = 0 THEN <<>>
  ELSE InsertNewestFirst(dividends[n], SortPrefix(dividends, n - 1))

\* dividends.sort((a, b) => new Date(b...) - new Date(a...)): a stable sort,
\* newest period first
SortNewestFirst(dividends) == SortPrefix(dividends, Len(dividends))

\* totalDividends / dividends.length
\* the average taken over the window of calculateAnnualizedYield
AverageDividendOfYear(dividends) ==
  NumDiv(SumDividends(Slice(dividends, Min(12, Len(dividends))), 1),
         Num(Min(12, Len(dividends)), 1))

AverageDividend(dividends) ==
  NumDiv(SumDividends(dividends, 1), Num(Len(dividends), 1))

\* the map over dividendHistory restricted to the window of lastYearDividends
MonthlyReturnsWindow(items, sharesOwned) ==
  [i \in 1..Min(12, Len(items)) |->
     [label |-> <<items[i].month, items[i].year>>,
      dividend |-> items[i].dividend,
      return |-> ToFixed(NumMul(items[i].dividend, sharesOwned), 2)]]

\* dividendHistory.map(item => ({label, dividend, return}))
MonthlyReturns(items, sharesOwned) ==
  [i \in 1..Len(items) |->
     [label |-> <<items[i].month, items[i].year>>,
      dividend |-> items[i].dividend,
      return |-> ToFixed(NumMul(items[i].dividend, sharesOwned), 2)]]

\* the loop that fills projectedReturns; amount is parseFloat(customDividendAmount)
ProjectedReturns(amount, sharesOwned, today, locale) ==
  [i \in 1..12 |->
     LET futureDate == SetMonth(today, today.m + (i - 1))
     IN  [label |-> <<ToLocaleMonthShort(futureDate, locale), futureDate.y>>,
          dividend |-> amount,
          return |-> ToFixed(NumMul(amount, sharesOwned), 2),
          isProjected |-> TRUE]]

\* useCustomDividend && customDividendAmount: a string is truthy unless empty
CustomOn(useCustom, custom) == useCustom /\ ~custom.empty

\* calculateReturns(amount) on the state it closes over: <<>> for null, else
\* the object it returns; the toFixed texts are held as the numbers they print
calculateReturns(amount, currentPrice, useCustom, custom, averageMonthly, dividends, name, today, locale) ==
  IF Falsy(currentPrice) THEN <<>>
  ELSE LET sharesOwned == NumDiv(amount, currentPrice)
           effectiveDividendAmount ==
             IF CustomOn(useCustom, custom) THEN custom.value ELSE averageMonthly
           expectedMonthlyDividend == NumMul(effectiveDividendAmount, sharesOwned)
           expectedAnnualDividend == NumMul(expectedMonthlyDividend, Num(12, 1))
           effectiveAnnualYield ==
             NumMul(NumDiv(NumMul(effectiveDividendAmount, Num(12, 1)), currentPrice),
                    Num(100, 1))
           lastYearDividends == Slice(dividends, Min(12, Len(dividends)))
           historicalReturn == NumMul(SumDividends(lastYearDividends, 1), sharesOwned)
       IN  << [sharesOwned |-> ToFixed(sharesOwned, 2),
               expectedMonthlyDividend |-> ToFixed(expectedMonthlyDividend, 2),
               expectedAnnualDividend |-> ToFixed(expectedAnnualDividend, 2),
               expectedAnnualYieldPercentage |-> ToFixed(effectiveAnnualYield, 2),
               historicalReturn |-> ToFixed(historicalReturn, 2),
               monthlyReturns |-> MonthlyReturns(dividends, sharesOwned),
               projectedReturns |->
                 IF CustomOn(useCustom, custom)
                 THEN ProjectedReturns(custom.value, sharesOwned, today, locale)
                 ELSE <<>>,
               isCustomScenario |-> CustomOn(useCustom, custom),
               scenarioName |->
                 IF name # "" THEN name
                 ELSE IF useCustom THEN "Custom Scenario" ELSE "Historical Average"] >>

\* the amount of the newest entry taken for the largest
MathMaxHead(items, from) ==
  IF from > Len(items) THEN Num(-1, 0) ELSE items[from].dividend

RECURSIVE MathMax(_, _)
\* Math.max(...items.map(item => item.dividend)) over items[from..]; -Infinity
\* for no arguments
MathMax(items, from) ==
  IF from > Len(items) THEN Num(-1, 0)
  ELSE LET rest == MathMax(items, from + 1)
       IN  IF NumLT(rest, items[from].dividend) THEN items[from].dividend ELSE rest

RECURSIVE MathMin(_, _)
\* Math.min(...items.map(item => item.dividend)); Infinity for no arguments
MathMin(items, from) ==
  IF from > Len(items) THEN Infinity
  ELSE LET rest == MathMin(items, from + 1)
       IN  IF NumLT(items[from].dividend, rest) THEN items[from].dividend ELSE rest

\* the displayed history taken as the starting point of a load
fetchDividendHistoryFromState(table, shown) == IF shown = <<>> THEN table ELSE shown

\* let dividends = await fetchDividendHistory(): a fresh copy of the table of
\* the bundle, whatever the component shows
fetchDividendHistory(table, shown) == table

(***************************************************************************)
(* Bounds and input sets                                                   *)
(***************************************************************************)
\* a chain has at most MaxCalls calls
MaxCalls == 2

\* an input history has at most MaxInput entries
MaxInput == 2

\* the months in which the calls happen, as offsets from December 2024
TodayMonths == {0, 1}

\* the days of the month and the times of day (0: midnight, 1: later) at
\* which the calls happen: around the 3rd, the 12th and the 25th
TodayInstants ==
  {<<3, 0>>, <<3, 1>>, <<12, 0>>, <<12, 1>>, <<24, 1>>, <<25, 1>>, <<31, 1>>}

MonthAt(k) == Normalize(2024, 11 + k, 1, 0)

\* the instants a call can read from new Date()
Todays ==
  { [y |-> MonthAt(k).y, m |-> MonthAt(k).m, d |-> i[1], t |-> i[2]] :
      k \in TodayMonths,
      i \in { j \in TodayInstants : \A n \in TodayMonths :
                j[1] <= DaysInMonth(MonthAt(n).y, MonthAt(n).m) } }

\* the periods an input history can hold, as offsets from December 2024
InputPeriods == {0, 1, 2}

\* the runtimes: default locale and whether the zone is ahead of UTC
Runtimes ==
  { [locale |-> "en-US", aheadOfUTC |-> FALSE],
    [locale |-> "en-US", aheadOfUTC |-> TRUE],
    [locale |-> "es-ES", aheadOfUTC |-> FALSE] }

\* currentPrice as the price feed can report it
Prices == {Num(0, 1), Num(37, 1)}

\* an entry as the history feed supplies it (no provenance flag)
FeedEntry(month, year, dividend, yield, exDate, payDate) ==
  [month |-> month, year |-> year, dividend |-> dividend, yield |-> yield,
   exDate |-> exDate, payDate |-> payDate,
   estimated |-> FALSE, announced |-> FALSE, earlyAnnouncement |-> FALSE]

IsoDate(y, m, d) == [y |-> y, m |-> m, d |-> d]

\* the k-th period from December 2024 on, with the amount the table has for it
\* where it has one
PeriodEntry(k) ==
  LET p == MonthAt(k)
      amounts == <<Num(3456, 1000), Num(2987, 1000), Num(3125, 1000),
                   Num(2834, 1000), Num(2456, 1000), Num(2719, 1000)>>
      dividend == amounts[(k % 6) + 1]
  IN  FeedEntry(monthNames[p.m + 1], p.y, dividend,
                ToFixed(calculateYield(dividend, Num(3679, 100)), 2),
                IsoDate(p.y, p.m + 1, 6), IsoDate(p.y, p.m + 1, 9))

\* the input histories: up to MaxInput of the periods December 2024 ..., in
\* any order, each period at most once
InputHistories ==
  { [i \in 1..Len(ks) |-> PeriodEntry(ks[i])] :
      ks \in { s \in UNION { [1..n -> InputPeriods] : n \in 0..MaxInput } :
                 \A i, j \in 1..Len(s) : i # j => s[i] # s[j] } }

\* a sampled history has at most MaxSample entries
MaxSample == 8

\* the amounts of a sampled history
SampleAmounts == {Num(2, 1), Num(3, 1)}

\* the non-empty histories generateExpectedDividend is sampled on
SampleHistories ==
  { [i \in 1..Len(a) |-> [dividend |-> a[i]]] :
      a \in UNION { [1..n -> SampleAmounts] : n \in 1..MaxSample } }

\* the draws of its Math.random() call: both ends and the middle of [0, 1)
SampleDraws == {0, 50, 99}

\* a page session starts at most MaxLoads loads after the initial one
MaxLoads == 1

\* the dividend table is updated at most MaxUpdates times
MaxUpdates == 1

\* the table of fetchDividendHistory as shipped
ActualFeed ==
  << FeedEntry("Jun", 2025, Num(307, 100), Num(835, 100), IsoDate(2025, 6, 6), IsoDate(2025, 6, 9)),
     FeedEntry("May", 2025, Num(2719, 1000), Num(739, 100), IsoDate(2025, 5, 8), IsoDate(2025, 5, 9)),
     FeedEntry("Apr", 2025, Num(2456, 1000), Num(668, 100), IsoDate(2025, 4, 10), IsoDate(2025, 4, 11)),
     FeedEntry("Mar", 2025, Num(2834, 1000), Num(771, 100), IsoDate(2025, 3, 13), IsoDate(2025, 3, 14)),
     FeedEntry("Feb", 2025, Num(3125, 1000), Num(849, 100), IsoDate(2025, 2, 13), IsoDate(2025, 2, 14)),
     FeedEntry("Jan", 2025, Num(2987, 1000), Num(812, 100), IsoDate(2025, 1, 16), IsoDate(2025, 1, 17)),
     FeedEntry("Dec", 2024, Num(3456, 1000), Num(939, 100), IsoDate(2024, 12, 19), IsoDate(2024, 12, 20)),
     FeedEntry("Nov", 2024, Num(2678, 1000), Num(728, 100), IsoDate(2024, 11, 21), IsoDate(2024, 11, 22)),
     FeedEntry("Oct", 2024, Num(2923, 1000), Num(794, 100), IsoDate(2024, 10, 24), IsoDate(2024, 10, 25)),
     FeedEntry("Sep", 2024, Num(2567, 1000), Num(698, 100), IsoDate(2024, 9, 6), IsoDate(2024, 9, 9)),
     FeedEntry("Aug", 2024, Num(2789, 1000), Num(758, 100), IsoDate(2024, 8, 7), IsoDate(2024, 8, 8)),
     FeedEntry("Jul", 2024, Num(3234, 1000), Num(879, 100), IsoDate(2024, 7, 5), IsoDate(2024, 7, 8)) >>

\* the entries a later edit of the table can put at its top: the month before
\* the oldest of the table and the month after its newest
TableUpdates ==
  { FeedEntry("Jun", 2024, Num(25, 10), Num(68, 10), IsoDate(2024, 6, 6), IsoDate(2024, 6, 7)),
    FeedEntry("Jul", 2025, Num(29, 10), Num(788, 100), IsoDate(2025, 7, 8), IsoDate(2025, 7, 9)) }

\* the instants a load can read from new Date(): in June and July 2025, a
\* day before the 3rd, one after the 12th and one after the 24th
PageTodays ==
  { [y |-> 2025, m |-> 5, d |-> 13, t |-> 1],
    [y |-> 2025, m |-> 5, d |-> 25, t |-> 1],
    [y |-> 2025, m |-> 6, d |-> 2, t |-> 1],
    [y |-> 2025, m |-> 6, d |-> 13, t |-> 1],
    [y |-> 2025, m |-> 6, d |-> 25, t |-> 1] }

\* the runtimes of the page: the time zone has no part in what it computes
\* but the exDate and payDate texts of a synthesized entry
PageRuntimes == { r \in Runtimes : ~r.aheadOfUTC }

\* currentPrice as fetchRealTimePrice returns it: the quote's c (0 for a
\* symbol the API has no quote for) or the fallback 36.79
PagePrices == {Num(0, 1), Num(3679, 100)}

\* the text of an input field: empty, or a text parseFloat reads as value
EmptyText == [empty |-> TRUE, value |-> NaN]

Text(x) == [empty |-> FALSE, value |-> x]

\* the histories a completed load can display: the shipped table, the table
\* with an estimated July 2025 entry in front, and tables an edit has cut down
\* to one entry or to none
CalcHistories ==
  { <<>>,
    <<ActualFeed[1]>>,
    ActualFeed,
    checkForNewDividendData(ActualFeed, Num(3679, 100),
                            [y |-> 2025, m |-> 6, d |-> 13, t |-> 1],
                            <<0, 0, 0>>, [locale |-> "en-US", aheadOfUTC |-> FALSE]) }

\* the instants calculateReturns can read from new Date(): a day every month
\* has, and a 31st and a 30th
CalcTodays ==
  { [y |-> 2025, m |-> 0, d |-> 15, t |-> 1],
    [y |-> 2025, m |-> 0, d |-> 31, t |-> 1],
    [y |-> 2025, m |-> 9, d |-> 30, t |-> 1] }

\* what parseFloat reads from the text typed into the investment field
TypedAmounts == {Num(0, 1), Num(1000, 1)}

\* the amounts of the preset buttons
PresetAmounts == {Num(5000, 1)}

\* the texts typed into the override amount field: empty, "2.5", "0", "-1"
\* and a text parseFloat reads no number from
TypedDividends ==
  {EmptyText, Text(Num(5, 2)), Text(Num(0, 1)), Text(Num(-1, 1)), Text(NaN)}

PresetTypes == {"bullish", "bearish", "highest", "lowest", "reset"}

(***************************************************************************)
(* State                                                                   *)
(***************************************************************************)
VARIABLES
  runtime,     \* the runtime's default locale and time zone
  history,     \* the history the reconcile calls are chained on
  callIn,      \* the last call's argument currentDividends
  callToday,   \* the value of new Date() in the last call of a chain
  calls,       \* the number of calls made so far in a chain
  repeat,      \* the last call repeated the date of the call before it, and
               \* that call had added an entry
  feed,        \* the table fetchDividendHistory returns
  mounted,     \* the component is mounted
  inflight,    \* the number of loadData calls waiting for fetchRealTimePrice
  loadsStarted,  \* the number of loads the timer and the button have started
  priceData,   \* priceData.currentPrice
  dividendHistory,
  averageMonthlyDividend,
  annualYield,
  loading,
  error,
  lastUpdated, \* whether lastUpdated holds a timestamp
  refreshCounter,
  placeholdersShown,  \* the periods a synthesized entry has been displayed for
  investmentAmount,
  customDividendAmount,  \* the text of the override amount field
  useCustomDividend,
  scenarioName,
  calculatedResults,  \* <<>> for null, else the one object calculateReturns built
  calcToday,   \* the value of new Date() in the last calculateReturns call
  sample,      \* the historicalDividends of a generateExpectedDividend call
  drawn,       \* the draw of its Math.random() call
  expected,    \* what the call returned
  reported,    \* what the two sources of the update script report to a run
  exitStatus,  \* the exit status of the run of the update script
  written      \* the number of entries the run wrote to financeService.js

chainVars == <<history, callToday, calls, repeat>>

pageVars ==
  <<feed, mounted, inflight, loadsStarted, priceData, dividendHistory,
    averageMonthlyDividend, annualYield, loading, error, lastUpdated,
    refreshCounter, placeholdersShown>>

calcVars ==
  <<investmentAmount, customDividendAmount, useCustomDividend, scenarioName,
    calculatedResults, calcToday>>

sampleVars == <<sample, drawn, expected>>

scriptVars == <<reported, exitStatus, written>>

vars == <<runtime, callIn, chainVars, pageVars, calcVars, sampleVars, scriptVars>>

NoDate == [y |-> 0, m |-> 0, d |-> 0, t |-> 0]

\* the useState initial values
InitialState ==
  /\ mounted = FALSE
  /\ inflight = 0
  /\ loadsStarted = 0
  /\ priceData = Num(0, 1)
  /\ dividendHistory = <<>>
  /\ averageMonthlyDividend = Num(0, 1)
  /\ annualYield = Num(0, 1)
  /\ loading = TRUE
  /\ error = "null"
  /\ lastUpdated = FALSE
  /\ refreshCounter = 0

NoChain ==
  /\ history = <<>>
  /\ callToday = NoDate
  /\ calls = 0
  /\ repeat = FALSE

\* the useState initial values of the calculator
InitialCalculator ==
  /\ investmentAmount = Num(20000, 1)
  /\ customDividendAmount = EmptyText
  /\ useCustomDividend = FALSE
  /\ scenarioName = ""
  /\ calculatedResults = <<>>
  /\ calcToday = NoDate

NoSample ==
  /\ sample = <<>>
  /\ drawn = 0
  /\ expected = Num(0, 1)

\* the script has not been run
NotRun == -1

NoScript ==
  /\ reported = <<>>
  /\ exitStatus = NotRun
  /\ written = 0

(***************************************************************************)
(* Chains of checkForNewDividendData calls                                 *)
(***************************************************************************)
InitReconcile ==
  /\ runtime \in Runtimes
  /\ history \in InputHistories
  /\ callIn = <<>>
  /\ callToday = NoDate
  /\ calls = 0
  /\ repeat = FALSE
  /\ feed = <<>>
  /\ placeholdersShown = {}
  /\ InitialState
  /\ InitialCalculator
  /\ NoSample
  /\ NoScript

\* one call of checkForNewDividendData, fed the previous call's output
Reconcile ==
  /\ calls < MaxCalls
  /\ \E today \in Todays, currentPrice \in Prices :
       \E rnd \in RandomRuns(history, today, runtime) :
         /\ history' = checkForNewDividendData(history, currentPrice, today, rnd, runtime)
         /\ callIn' = history
         /\ callToday' = today
         /\ calls' = calls + 1
         /\ repeat' = (calls >= 1 /\ today = callToday /\ Len(history) = Len(callIn) + 1)
  /\ UNCHANGED <<runtime, pageVars, calcVars, sampleVars, scriptVars>>

NextReconcile == Reconcile

SpecReconcile == InitReconcile /\ [][NextReconcile]_vars

(***************************************************************************)
(* Calls of generateExpectedDividend on sampled histories                  *)
(***************************************************************************)
DefaultRuntime == [locale |-> "en-US", aheadOfUTC |-> FALSE]

InitExpected ==
  /\ runtime = DefaultRuntime
  /\ sample \in SampleHistories
  /\ drawn = 0
  /\ expected = Num(0, 1)
  /\ callIn = <<>>
  /\ feed = <<>>
  /\ placeholdersShown = {}
  /\ NoChain
  /\ InitialState
  /\ InitialCalculator
  /\ NoScript

\* one call generateExpectedDividend(sample, month, year); calls counts it
GenerateExpected ==
  /\ \E r \in SampleDraws :
       /\ drawn' = r
       /\ expected' = generateExpectedDividend(sample, r)
  /\ calls' = 1
  /\ UNCHANGED <<runtime, callIn, history, callToday, repeat, pageVars, calcVars, sample,
                 scriptVars>>

NextExpected == GenerateExpected

SpecExpected == InitExpected /\ [][NextExpected]_vars

(***************************************************************************)
(* The dashboard component                                                 *)
(***************************************************************************)
Init ==
  /\ runtime \in PageRuntimes
  /\ feed = ActualFeed
  /\ callIn = <<>>
  /\ placeholdersShown = {}
  /\ NoChain
  /\ InitialState
  /\ InitialCalculator
  /\ NoSample
  /\ NoScript

\* loadData up to its first await: setLoading(true), setError(null), and the
\* price request is under way
StartLoad ==
  /\ loading' = TRUE
  /\ error' = "null"
  /\ inflight' = inflight + 1

\* the mount effect: loadData() and setInterval
Mount ==
  /\ ~mounted
  /\ mounted' = TRUE
  /\ StartLoad
  /\ UNCHANGED <<runtime, callIn, chainVars, feed, loadsStarted, priceData,
                 dividendHistory, averageMonthlyDividend, annualYield,
                 lastUpdated, refreshCounter, placeholdersShown>>
  /\ UNCHANGED <<calcVars, sampleVars, scriptVars>>

\* the interval fires: setRefreshCounter(prev => prev + 1), and the effect on
\* refreshCounter calls loadData()
TimerTick ==
  /\ mounted
  /\ loadsStarted < MaxLoads
  /\ refreshCounter' = refreshCounter + 1
  /\ loadsStarted' = loadsStarted + 1
  /\ StartLoad
  /\ UNCHANGED <<runtime, callIn, chainVars, feed, mounted, priceData,
                 dividendHistory, averageMonthlyDividend, annualYield,
                 lastUpdated, placeholdersShown>>
  /\ UNCHANGED <<calcVars, sampleVars, scriptVars>>

\* a click on "Refresh Data" (disabled while loading) or on "Try again"
\* (shown while error is set)
handleRefresh ==
  /\ mounted
  /\ ~loading \/ error # "null"
  /\ loadsStarted < MaxLoads
  /\ loadsStarted' = loadsStarted + 1
  /\ StartLoad
  /\ UNCHANGED <<runtime, callIn, chainVars, feed, mounted, priceData,
                 dividendHistory, averageMonthlyDividend, annualYield,
                 lastUpdated, refreshCounter, placeholdersShown>>
  /\ UNCHANGED <<calcVars, sampleVars, scriptVars>>

\* the periods of the flagged entries of a history
PlaceholderPeriods(h) ==
  { <<h[i].month, h[i].year>> : i \in { j \in 1..Len(h) : h[j].estimated \/ h[j].announced } }

\* the rest of loadData, run when fetchRealTimePrice resolves (it never
\* rejects): nothing in it waits for anything but resolved promises, and
\* nothing in it throws; then, on the render that follows with loading false
\* and no error, the effect setCalculatedResults(calculateReturns(...))
loadData(prices, todays) ==
  /\ inflight > 0
  /\ \E price \in prices, today \in todays :
       \E fetched \in {fetchDividendHistory(feed, dividendHistory)} :
         \E rnd \in RandomRuns(fetched, today, runtime) :
           \E checked \in {checkForNewDividendData(fetched, price, today, rnd, runtime)} :
             \E dividends \in {SortNewestFirst(checked)} :
               \E avgDividend \in {AverageDividend(dividends)} :
               LET yield12Month == calculateAnnualizedYield(dividends, price)
               IN  /\ priceData' = price
                   /\ callIn' = fetched
                   /\ dividendHistory' = dividends
                   /\ averageMonthlyDividend' = avgDividend
                   /\ annualYield' = yield12Month
                   /\ placeholdersShown' =
                        placeholdersShown \cup PlaceholderPeriods(dividends)
                   /\ calculatedResults' =
                        IF error = "null"
                        THEN calculateReturns(investmentAmount, price, useCustomDividend,
                                              customDividendAmount, avgDividend, dividends,
                                              scenarioName, today, runtime.locale)
                        ELSE calculatedResults
                   /\ calcToday' =
                        IF error # "null" THEN calcToday
                        ELSE IF CustomOn(useCustomDividend, customDividendAmount)
                                /\ ~Falsy(price)
                        THEN today ELSE NoDate
  /\ lastUpdated' = TRUE
  /\ loading' = FALSE
  /\ inflight' = inflight - 1
  /\ UNCHANGED <<runtime, chainVars, feed, mounted, loadsStarted, error, refreshCounter>>
  /\ UNCHANGED <<investmentAmount, customDividendAmount, useCustomDividend,
                 scenarioName, sampleVars, scriptVars>>

LoadResolve == loadData(PagePrices, PageTodays)

\* the table in financeService.js is edited: a new entry is put at the top of
\* the array, and the page is loaded again with the new bundle
UpdateDividendTable ==
  /\ Len(feed) < Len(ActualFeed) + MaxUpdates
  /\ \E e \in TableUpdates :
       /\ ~HasPeriod(feed, e.month, e.year)
       /\ feed' = <<e>> \o feed
  /\ mounted' = FALSE
  /\ inflight' = 0
  /\ loadsStarted' = 0
  /\ priceData' = Num(0, 1)
  /\ dividendHistory' = <<>>
  /\ averageMonthlyDividend' = Num(0, 1)
  /\ annualYield' = Num(0, 1)
  /\ loading' = TRUE
  /\ error' = "null"
  /\ lastUpdated' = FALSE
  /\ refreshCounter' = 0
  /\ investmentAmount' = Num(20000, 1)
  /\ customDividendAmount' = EmptyText
  /\ useCustomDividend' = FALSE
  /\ scenarioName' = ""
  /\ calculatedResults' = <<>>
  /\ calcToday' = NoDate
  /\ UNCHANGED <<runtime, callIn, chainVars, placeholdersShown, sampleVars, scriptVars>>

Next ==
  \/ Mount
  \/ TimerTick
  \/ handleRefresh
  \/ LoadResolve
  \/ UpdateDividendTable

Spec == Init /\ [][Next]_vars

(***************************************************************************)
(* The calculator of the dashboard, on a page whose load has completed     *)
(***************************************************************************)
InitCalculator ==
  /\ runtime \in PageRuntimes
  /\ dividendHistory \in CalcHistories
  /\ priceData \in PagePrices
  /\ averageMonthlyDividend = AverageDividend(dividendHistory)
  /\ annualYield = calculateAnnualizedYield(dividendHistory, priceData)
  /\ feed = SelectSeq(dividendHistory, LAMBDA e : ~(e.estimated \/ e.announced))
  /\ callIn = feed
  /\ placeholdersShown = PlaceholderPeriods(dividendHistory)
  /\ mounted = TRUE
  /\ inflight = 0
  /\ loadsStarted = 0
  /\ loading = FALSE
  /\ error = "null"
  /\ lastUpdated = TRUE
  /\ refreshCounter = 0
  /\ investmentAmount = Num(20000, 1)
  /\ customDividendAmount = EmptyText
  /\ useCustomDividend = FALSE
  /\ scenarioName = ""
  /\ calculatedResults =
       calculateReturns(investmentAmount, priceData, FALSE, EmptyText,
                        averageMonthlyDividend, dividendHistory, "", NoDate,
                        runtime.locale)
  /\ calcToday = NoDate
  /\ NoChain
  /\ NoSample
  /\ NoScript

\* the main content, and with it every control of the calculator, is rendered
ControlsShown == ~loading /\ error = "null"

\* the render a handler leads to, with the effect skipped: calculatedResults
\* stays what it was
RenderStale(amount, custom, use, name) ==
  /\ investmentAmount' = amount
  /\ customDividendAmount' = custom
  /\ useCustomDividend' = use
  /\ scenarioName' = name
  /\ UNCHANGED <<calculatedResults, calcToday>>
  /\ UNCHANGED <<runtime, callIn, chainVars, pageVars, sampleVars, scriptVars>>

\* the state a handler sets, and the effect on it that follows the render:
\* setCalculatedResults(calculateReturns(investmentAmount)), run when one of
\* its dependencies has changed
Render(amount, custom, use, name) ==
  /\ investmentAmount' = amount
  /\ customDividendAmount' = custom
  /\ useCustomDividend' = use
  /\ scenarioName' = name
  /\ IF <<amount, custom, use, name>> =
          <<investmentAmount, customDividendAmount, useCustomDividend, scenarioName>>
     THEN UNCHANGED <<calculatedResults, calcToday>>
     ELSE \E today \in (IF CustomOn(use, custom) /\ ~Falsy(priceData)
                        THEN CalcTodays ELSE {NoDate}) :
            /\ calculatedResults' =
                 calculateReturns(amount, priceData, use, custom,
                                  averageMonthlyDividend, dividendHistory, name,
                                  today, runtime.locale)
            /\ calcToday' = today
  /\ UNCHANGED <<runtime, callIn, chainVars, pageVars, sampleVars, scriptVars>>

\* a change of the investment amount that also clears the scenario
handleAmountChangeClearing ==
  /\ ControlsShown
  /\ \E value \in TypedAmounts :
       IF ~IsNaN(value) /\ NumLT(Num(0, 1), value)
       THEN Render(value, EmptyText, FALSE, "")
       ELSE Render(investmentAmount, customDividendAmount, useCustomDividend, scenarioName)

handleAmountChange ==
  /\ ControlsShown
  /\ \E value \in TypedAmounts :
       IF ~IsNaN(value) /\ NumLT(Num(0, 1), value)
       THEN Render(value, customDividendAmount, useCustomDividend, scenarioName)
       ELSE Render(investmentAmount, customDividendAmount, useCustomDividend, scenarioName)

handlePresetAmount ==
  /\ ControlsShown
  /\ \E amount \in PresetAmounts :
       Render(amount, customDividendAmount, useCustomDividend, scenarioName)

\* the field is rendered while the checkbox is checked
handleCustomDividendChange ==
  /\ ControlsShown
  /\ useCustomDividend
  /\ \E value \in TypedDividends :
       IF value.empty \/ (~IsNaN(value.value) /\ ~NumLT(value.value, Num(0, 1)))
       THEN Render(investmentAmount, value, useCustomDividend, scenarioName)
       ELSE Render(investmentAmount, customDividendAmount, useCustomDividend, scenarioName)

handleUseCustomDividendChange ==
  /\ ControlsShown
  /\ \E checked \in BOOLEAN :
       Render(investmentAmount, customDividendAmount, checked, scenarioName)

\* the switch of applyPresetScenario on one type
applyPreset(type) ==
  IF type = "bullish"
  THEN Render(investmentAmount,
              Text(ToFixed(NumMul(averageMonthlyDividend, Num(3, 2)), 4)),
              TRUE, "Bullish Scenario (+50%)")
  ELSE IF type = "bearish"
  THEN Render(investmentAmount,
              Text(ToFixed(NumMul(averageMonthlyDividend, Num(1, 2)), 4)),
              TRUE, "Bearish Scenario (-50%)")
  ELSE IF type = "highest"
  THEN Render(investmentAmount, Text(ToFixed(MathMax(dividendHistory, 1), 4)),
              TRUE, "Peak Performance")
  ELSE IF type = "lowest"
  THEN Render(investmentAmount, Text(ToFixed(MathMin(dividendHistory, 1), 4)),
              TRUE, "Minimum Performance")
  ELSE Render(investmentAmount, EmptyText, FALSE, "")

applyPresetScenario ==
  /\ ControlsShown
  /\ \E type \in PresetTypes : applyPreset(type)

NextCalculator ==
  \/ handleAmountChange
  \/ handlePresetAmount
  \/ handleCustomDividendChange
  \/ handleUseCustomDividendChange
  \/ applyPresetScenario

SpecCalculator == InitCalculator /\ [][NextCalculator]_vars

(***************************************************************************)
(* A session on the page as shipped: loads and calculator handlers         *)
(***************************************************************************)
\* the page as constructed, in the default runtime
InitSession == Init /\ runtime = DefaultRuntime

\* the day of the session: 13 July 2025, when the table's newest entry is
\* June 2025 and the July payment is taken to be due
SessionTodays ==
  { [y |-> 2025, m |-> 6, d |-> 13, t |-> 1] }

\* the price fetched during the session
SessionPrices == {Num(3679, 100)}

LoadResolveSession == loadData(SessionPrices, SessionTodays)

NextSession ==
  \/ Mount
  \/ TimerTick
  \/ handleRefresh
  \/ LoadResolveSession
  \/ handleAmountChange
  \/ handleUseCustomDividendChange
  \/ applyPresetScenario

SpecSession == InitSession /\ [][NextSession]_vars

(***************************************************************************)
(* scripts/check-monthly-dividend.js: one run of the update script         *)
(***************************************************************************)
\* the names bound when the object literal SOURCES is evaluated: the const
\* declarations above it and the hoisted function declarations
DeclaredNames ==
  {"axios", "cheerio", "fs", "path", "WNTR_SYMBOL", "getCurrentDividendData",
   "checkPolygonAPI", "scrapeStockAnalysis", "isNewDividend",
   "updateFinanceService", "checkForNewMonthlyDividend"}

\* the names the template literals of SOURCES read
SourcesReads == {"WNTR_SYMBOL", "WNTR"}

\* evaluating SOURCES throws a ReferenceError unless every name is bound
ModuleLoads == SourcesReads \subseteq DeclaredNames

\* a source has nothing to report (it returns null)
NoReport == [null |-> TRUE, date |-> IsoDate(0, 0, 0), dividend |-> Num(0, 1)]

Report(date, dividend) == [null |-> FALSE, date |-> date, dividend |-> dividend]

\* what a source can report: nothing, the newest period of the table, or one
\* of two periods after it
SourceReports ==
  { NoReport,
    Report(IsoDate(2025, 6, 6), Num(307, 100)),
    Report(IsoDate(2025, 7, 8), Num(29, 10)),
    Report(IsoDate(2025, 8, 7), Num(31, 10)) }

\* the table of financeService.js when the script is run
ScriptTables == { <<>>, ActualFeed, <<FeedEntry("Jul", 2025, Num(29, 10), Num(788, 100), IsoDate(2025, 7, 8),
                IsoDate(2025, 7, 9))>> \o ActualFeed }

\* the object checkPolygonAPI and scrapeStockAnalysis build from a report
SourceResult(report, locale) ==
  [null |-> report.null,
   month |-> IF report.null THEN ""
             ELSE ToLocaleMonthShort([y |-> report.date.y, m |-> report.date.m - 1,
                                      d |-> report.date.d, t |-> 0], locale),
   year |-> report.date.y,
   dividend |-> report.dividend,
   exDate |-> report.date]

isNewDividend(newDiv, currentDividends) ==
  IF newDiv.null THEN FALSE
  ELSE ~HasPeriod(currentDividends, newDiv.month, newDiv.year)

\* the array as updateFinanceService rewrites it: the new line has no payDate
updateFinanceService(newDividend, table) ==
  <<FeedEntry(newDividend.month, newDividend.year, newDividend.dividend,
              ToFixed(NumMul(NumDiv(newDividend.dividend, Num(37, 1)), Num(100, 1)), 2),
              newDividend.exDate, IsoDate(0, 0, 0))>> \o table

\* the loop over the sources from source k on: the table the run leaves, its
\* exit status and the number of entries it wrote
RECURSIVE CheckSources(_, _, _, _)
CheckSources(table, reports, k, locale) ==
  IF k > Len(reports) THEN [table |-> table, status |-> 0, written |-> 0]
  ELSE LET newDividend == SourceResult(reports[k], locale)
       IN  IF isNewDividend(newDividend, table)
           THEN [table |-> updateFinanceService(newDividend, table),
                 status |-> 0, written |-> 1]
           ELSE CheckSources(table, reports, k + 1, locale)

checkForNewMonthlyDividend(table, reports, locale) ==
  CheckSources(table, reports, 1, locale)

\* node scripts/check-monthly-dividend.js: the module is evaluated, and if
\* that throws the process ends with status 1 before the main function runs
RunScriptOutcome(table, reports, locale) ==
  IF ModuleLoads THEN checkForNewMonthlyDividend(table, reports, locale)
  ELSE [table |-> table, status |-> 1, written |-> 0]

InitScript ==
  /\ runtime \in PageRuntimes
  /\ feed \in ScriptTables
  /\ reported \in [1..2 -> SourceReports]
  /\ exitStatus = NotRun
  /\ written = 0
  /\ callIn = <<>>
  /\ placeholdersShown = {}
  /\ NoChain
  /\ InitialState
  /\ InitialCalculator
  /\ NoSample

RunScript ==
  /\ exitStatus = NotRun
  /\ \E run \in {RunScriptOutcome(feed, reported, runtime.locale)} :
       /\ feed' = run.table
       /\ exitStatus' = run.status
       /\ written' = run.written
  /\ callIn' = feed
  /\ UNCHANGED <<runtime, chainVars, mounted, inflight, loadsStarted, priceData,
                 dividendHistory, averageMonthlyDividend, annualYield, loading,
                 error, lastUpdated, refreshCounter, placeholdersShown, calcVars,
                 sampleVars, reported>>

NextScript == RunScript

SpecScript == InitScript /\ [][NextScript]_vars

(***************************************************************************)
(* Properties of checkForNewDividendData                                   *)
(***************************************************************************)
\* the number of entries of h with the period (month, year)
PeriodCount(h, month, year) ==
  Cardinality({ i \in 1..Len(h) : h[i].month = month /\ h[i].year = year })

UniquePeriods(h) ==
  \A i, j \in 1..Len(h) :
    i # j => ~(h[i].month = h[j].month /\ h[i].year = h[j].year)

Flagged(e) == e.estimated \/ e.announced

\* the position of a period on the calendar
PeriodKey(e) == e.year * 12 + IndexOf(e.month)

SortedDescending(h) ==
  \A i \in 1..(Len(h) - 1) : PeriodKey(h[i]) > PeriodKey(h[i + 1])

\* the number of entries the last call has put in front of its input
Added == Len(history) - Len(callIn)

\* C1: along a chain of reconcile calls that starts from a history with unique
\* periods, every (month, year) pair appears at most once in the history.
C1_NoDuplicatePeriods == UniquePeriods(history)

\* two calls in a row have each added an entry
C1_Witness ==
  /\ calls = 2
  /\ Len(history) >= 3
  /\ Flagged(history[1])
  /\ Flagged(history[2])

\* C2: a call at the same date as the call before it, on that call's output,
\* leaves exactly one entry for the period the call before it had added.
C2_IdempotentPerPeriod ==
  repeat => PeriodCount(history, callIn[1].month, callIn[1].year) = 1

\* the repeated call has itself added an entry, for another period
C2_Witness ==
  /\ repeat
  /\ Added = 1
  /\ Flagged(callIn[1])

\* C3: the output of a call is its input, or its input with new entries in
\* front of it.
C3_InputKept ==
  calls >= 1 =>
    /\ Added >= 0
    /\ SubSeq(history, Added + 1, Len(history)) = callIn

\* a call has put an entry in front of an input of two entries
C3_Witness ==
  /\ calls >= 1
  /\ Added = 1
  /\ Len(callIn) >= 2

\* C4: a call adds at most one entry.
C4_AtMostOneAdded == calls >= 1 => Added <= 1

\* a call on a day on which the current period is due and the next period is
\* in its announcement window, both absent from the input
C4_Witness ==
  /\ calls >= 1
  /\ Added = 1
  /\ history[1].estimated
  /\ callToday.d >= 25
  /\ NextMonthDue(callIn, callToday, runtime)

\* C6: a call on a history sorted strictly descending by (year, month) returns
\* a history sorted strictly descending by (year, month).
C6_SortedKept ==
  (calls >= 1 /\ SortedDescending(callIn)) => SortedDescending(history)

\* C9: every entry a call synthesizes carries estimated or announced, and the
\* entries of its input keep their flags.
C9_ProvenanceFlagged ==
  calls >= 1 =>
    /\ \A i \in 1..Added : Flagged(history[i])
    /\ \A j \in 1..Len(callIn) :
         /\ history[Added + j].estimated = callIn[j].estimated
         /\ history[Added + j].announced = callIn[j].announced
         /\ history[Added + j].earlyAnnouncement = callIn[j].earlyAnnouncement

\* a call has synthesized an early announcement in front of unflagged entries
C9_Witness ==
  /\ calls >= 1
  /\ Added = 1
  /\ history[1].earlyAnnouncement
  /\ Len(callIn) >= 1
  /\ ~Flagged(history[2])

\* C10: every entry a call returns has a finite dividend amount (the call has
\* no outcome that is an error).
C10_FiniteAmounts ==
  calls >= 1 => \A i \in 1..Len(history) : IsFinite(history[i].dividend)

\* C11: a placeholder synthesized on an empty history carries an amount that
\* is a number (a fixed default), not the average of zero entries.
C11_EmptyHistoryDefault ==
  (calls >= 1 /\ callIn = <<>> /\ Added = 1) => ~IsNaN(history[1].dividend)

\* C13: every entry of a returned history whose amount is a finite number
\* carries a yield that is finite and not negative, whatever the price feed
\* reports.
C13_YieldGuarded ==
  calls >= 1 =>
    \A i \in 1..Len(history) :
      IsFinite(history[i].dividend) =>
        IsFinite(history[i].yield) /\ history[i].yield.n >= 0

(***************************************************************************)
(* Properties of generateExpectedDividend                                  *)
(***************************************************************************)
NumLE(a, b) == ~NumLT(b, a)

RECURSIVE WeightedTotal(_, _)
\* 6 * h[1] + 5 * h[2] + ... over the first n entries of h
WeightedTotal(h, n) ==
  IF n = 0 THEN Num(0, 1)
  ELSE NumAdd(NumMul(Num(7 - n, 1), h[n].dividend), WeightedTotal(h, n - 1))

\* C12: the synthesized amount is the mean of the first min(6, len) entries
\* weighted 6, 5, 4, 3, 2, 1, times a factor 0.75 + draw / 2; it lies between
\* 0.75 times the smallest and 1.25 times the largest of those entries, and
\* the entries behind the sixth have no part in it.
C12_WeightedMean ==
  calls = 1 =>
    LET n == Min(6, Len(sample))
        mean == NumDiv(WeightedTotal(sample, n), Num((n * (13 - n)) \div 2, 1))
    IN  /\ expected = NumMul(mean, NumAdd(Num(3, 4), Num(drawn, 200)))
        /\ \E i \in 1..n : NumLE(NumMul(Num(3, 4), sample[i].dividend), expected)
        /\ \E i \in 1..n : NumLE(expected, NumMul(Num(5, 4), sample[i].dividend))

\* a call on a history of more than six entries whose later entries differ
\* from all of its first six
C12_Witness ==
  /\ calls = 1
  /\ Len(sample) > 6
  /\ drawn = 99
  /\ \A i \in 1..6 : sample[i].dividend # sample[Len(sample)].dividend

(***************************************************************************)
(* Properties of loadData                                                  *)
(***************************************************************************)
\* the number of synthesized entries of h
FlaggedCount(h) == Cardinality({ i \in 1..Len(h) : Flagged(h[i]) })

\* the entries of h that are entries of the table
Unflagged(h) == SelectSeq(h, LAMBDA e : ~Flagged(e))

\* C5: in a load, the list checkForNewDividendData takes its most recent
\* entries from is the feed sorted newest first.
C5_SortedBeforeUse == lastUpdated => callIn = SortNewestFirst(feed)

\* C7: after a load, every (month, year) period of the feed has exactly one
\* entry in the displayed history, and that entry is the feed's, unflagged.
C7_PlaceholderSuperseded ==
  lastUpdated =>
    \A i \in 1..Len(feed) :
      /\ PeriodCount(dividendHistory, feed[i].month, feed[i].year) = 1
      /\ \E j \in 1..Len(dividendHistory) :
           dividendHistory[j] = feed[i] /\ ~Flagged(dividendHistory[j])

\* a load has completed on a feed that holds a period an earlier load had
\* shown a placeholder for
C7_Witness ==
  /\ lastUpdated
  /\ \E i \in 1..Len(feed) : <<feed[i].month, feed[i].year>> \in placeholdersShown

\* C8: after any load, the first or a later one, the displayed history is the
\* feed's entries and at most one synthesized entry.
C8_NoAccumulation ==
  lastUpdated =>
    /\ FlaggedCount(dividendHistory) <= 1
    /\ Len(dividendHistory) = Len(feed) + FlaggedCount(dividendHistory)
    /\ Unflagged(dividendHistory) = SortNewestFirst(feed)

\* a refresh has completed after an earlier load had shown a placeholder, and
\* the history it displays holds a placeholder too
C8_Witness ==
  /\ lastUpdated
  /\ loadsStarted >= 1
  /\ inflight = 0
  /\ placeholdersShown # {}
  /\ FlaggedCount(dividendHistory) = 1

\* C14: a load whose price is zero, negative or absent ends with the invalid
\* price reported in error, and computes no yield from it.
C14_InvalidPriceSurfaced ==
  (lastUpdated /\ ~NumLT(Num(0, 1), priceData)) => error # "null"

\* the arithmetic mean of the min(12, len) most recent entries
TrailingAverage(h) ==
  NumDiv(SumDividends(Slice(h, 12), 1), Num(Min(12, Len(h)), 1))

\* C15: after a load, averageMonthlyDividend is the mean of the min(12, len)
\* most recent entries of the displayed history.
C15_TrailingAverageWindow ==
  lastUpdated => averageMonthlyDividend = TrailingAverage(dividendHistory)

\* the annual yield calculateReturns derives in average mode from the state
AverageModeYield ==
  calculateReturns(investmentAmount, priceData, FALSE, customDividendAmount,
                   averageMonthlyDividend, dividendHistory, scenarioName,
                   calcToday, runtime.locale)[1].expectedAnnualYieldPercentage

\* C16: after a load with a price above zero, the annual yield of
\* calculateAnnualizedYield and the annual yield calculateReturns derives in
\* average mode are the same percentage (to the two decimals displayed).
C16_AnnualizationsAgree ==
  (lastUpdated /\ NumLT(Num(0, 1), priceData) /\ dividendHistory # <<>>) =>
    ToFixed(annualYield, 2) = AverageModeYield

(***************************************************************************)
(* Properties of the calculator                                            *)
(***************************************************************************)
\* C17: whenever the override mode is switched on and calculateReturns has
\* returned an object, projectedReturns has exactly 12 entries, each with the
\* override amount, the empty override field included.
C17_TwelveProjected ==
  (useCustomDividend /\ calculatedResults # <<>>) =>
    /\ Len(calculatedResults[1].projectedReturns) = 12
    /\ \A i \in 1..Len(calculatedResults[1].projectedReturns) :
         calculatedResults[1].projectedReturns[i].dividend = customDividendAmount.value

\* the label of the month k months after the month of date
LabelAfter(date, k, locale) ==
  <<ToLocaleMonthShort([m |-> (date.m + k) % 12], locale), date.y + ((date.m + k) \div 12)>>

\* C18: the projected entries carry the labels of 12 consecutive months that
\* start at the month of today, whatever the day of the month is.
C18_ConsecutiveLabels ==
  (calculatedResults # <<>> /\ calculatedResults[1].isCustomScenario) =>
    /\ Len(calculatedResults[1].projectedReturns) = 12
    /\ \A i \in 1..Len(calculatedResults[1].projectedReturns) :
         calculatedResults[1].projectedReturns[i].label =
           LabelAfter(calcToday, i - 1, runtime.locale)

\* |a - b| <= 1/200, b a whole number of cents
RoundedToCents(a, b) ==
  LET diff == NumAdd(b, NumMul(Num(-1, 1), a))
  IN  /\ 100 % b.d = 0
      /\ NumLE(diff, Num(1, 200))
      /\ NumLE(Num(-1, 200), diff)

\* C19: in the historical scenario monthlyReturns has one entry per history
\* entry, in history order, labelled with its month and year, whose return is
\* its amount times investmentAmount / currentPrice rounded to 2 decimals.
C19_HistoricalReturns ==
  (calculatedResults # <<>> /\ ~calculatedResults[1].isCustomScenario) =>
    LET monthlyReturns == calculatedResults[1].monthlyReturns
        sharesOwned == NumDiv(investmentAmount, priceData)
    IN  /\ Len(monthlyReturns) = Len(dividendHistory)
        /\ \A i \in 1..Len(dividendHistory) :
             /\ i <= Len(monthlyReturns)
             /\ monthlyReturns[i].label = <<dividendHistory[i].month, dividendHistory[i].year>>
             /\ RoundedToCents(NumMul(dividendHistory[i].dividend, sharesOwned),
                               monthlyReturns[i].return)

\* a handler has changed the investment amount on a history of 13 entries
C19_Witness ==
  /\ calculatedResults # <<>>
  /\ ~calculatedResults[1].isCustomScenario
  /\ Len(dividendHistory) = 13
  /\ investmentAmount = Num(5000, 1)

\* C20: on an empty history the peak and the minimum preset are never applied:
\* no state with an empty history carries their scenario.
C20_PresetOnEmptyFails ==
  (dividendHistory = <<>> /\ error = "null") =>
    scenarioName \notin {"Peak Performance", "Minimum Performance"}

\* |a - b| <= 1/20000, b a whole number of ten-thousandths
RoundedTo4(a, b) ==
  LET diff == NumAdd(b, NumMul(Num(-1, 1), a))
  IN  /\ 10000 % b.d = 0
      /\ NumLE(diff, Num(1, 20000))
      /\ NumLE(Num(-1, 20000), diff)

\* a step that brings the scenario of the name up
Applies(name) == scenarioName' = name /\ scenarioName # name

\* the amounts of the displayed history
Amounts == { dividendHistory[i].dividend : i \in 1..Len(dividendHistory) }

\* C21: a preset applied on a non-empty history switches the override mode on
\* and sets the override amount to, rounded to 4 decimals: the average times
\* 1.5 (bullish), the average times 0.5 (bearish), the largest amount of the
\* history (peak), its smallest amount (minimum); minimum <= average <= peak
\* and bearish <= average <= bullish.
C21_PresetValues ==
  [][ dividendHistory # <<>> =>
        /\ Applies("Bullish Scenario (+50%)") =>
             /\ useCustomDividend'
             /\ ~customDividendAmount'.empty
             /\ RoundedTo4(NumMul(averageMonthlyDividend, Num(3, 2)),
                           customDividendAmount'.value)
             /\ NumLE(averageMonthlyDividend, customDividendAmount'.value)
        /\ Applies("Bearish Scenario (-50%)") =>
             /\ useCustomDividend'
             /\ ~customDividendAmount'.empty
             /\ RoundedTo4(NumMul(averageMonthlyDividend, Num(1, 2)),
                           customDividendAmount'.value)
             /\ NumLE(customDividendAmount'.value, averageMonthlyDividend)
        /\ Applies("Peak Performance") =>
             /\ useCustomDividend'
             /\ ~customDividendAmount'.empty
             /\ \E a \in Amounts : RoundedTo4(a, customDividendAmount'.value)
             /\ \A a \in Amounts : NumLE(a, customDividendAmount'.value)
             /\ NumLE(averageMonthlyDividend, customDividendAmount'.value)
        /\ Applies("Minimum Performance") =>
             /\ useCustomDividend'
             /\ ~customDividendAmount'.empty
             /\ \E a \in Amounts : RoundedTo4(a, customDividendAmount'.value)
             /\ \A a \in Amounts : NumLE(customDividendAmount'.value, a)
             /\ NumLE(customDividendAmount'.value, averageMonthlyDividend)
    ]_vars

\* the peak preset has been applied on the history of 13 entries, whose
\* largest amount is the 3.456 of December 2024
C21_Witness ==
  /\ scenarioName = "Peak Performance"
  /\ useCustomDividend
  /\ Len(dividendHistory) = 13
  /\ customDividendAmount = Text(Num(3456, 1000))

(***************************************************************************)
(* C22: the scenario (useCustomDividend, customDividendAmount,             *)
(* scenarioName) changes only by a step of the scenario controls: a step   *)
(* that changes it starts no load, completes none, is no timer tick, and   *)
(* leaves the investment amount, the price and the history as they were.   *)
(***************************************************************************)
scenario == <<useCustomDividend, customDividendAmount, scenarioName>>

C22_ScenarioChangedByUserOnly ==
  [][ scenario' # scenario =>
        /\ ControlsShown
        /\ UNCHANGED <<mounted, inflight, loadsStarted, refreshCounter, loading,
                       error, lastUpdated, priceData, dividendHistory,
                       averageMonthlyDividend, annualYield, investmentAmount>> ]_vars

\* a load has completed while an override was in force, after the amount was
\* changed under that override: the projection is dated by the load
C22_Witness ==
  /\ useCustomDividend
  /\ ~customDividendAmount.empty
  /\ scenarioName = "Peak Performance"
  /\ investmentAmount = Num(1000, 1)
  /\ inflight = 0
  /\ refreshCounter = 1
  /\ calcToday \in SessionTodays \ CalcTodays

(***************************************************************************)
(* C23: a click on the reset preset, from whatever scenario, leaves        *)
(* override mode off and the override amount and the scenario name empty,  *)
(* and the results computed on the render that follows are those of the    *)
(* average: isCustomScenario false, no projected entries, the monthly      *)
(* dividend that of averageMonthlyDividend.                                *)
(***************************************************************************)
AverageResults(results) ==
  IF Falsy(priceData) THEN results = <<>>
  ELSE /\ results # <<>>
       /\ ~results[1].isCustomScenario
       /\ results[1].projectedReturns = <<>>
       /\ results[1].scenarioName = "Historical Average"
       /\ results[1].expectedMonthlyDividend =
            ToFixed(NumMul(averageMonthlyDividend,
                           NumDiv(investmentAmount, priceData)), 2)

C23_ResetLeavesNoOverride ==
  [][ (ControlsShown /\ applyPreset("reset")) =>
        /\ useCustomDividend' = FALSE
        /\ customDividendAmount' = EmptyText
        /\ scenarioName' = ""
        /\ AverageResults(calculatedResults') ]_vars

\* an override with twelve projected entries is shown, and with it the reset
\* button
C23_Witness ==
  /\ useCustomDividend
  /\ ~customDividendAmount.empty
  /\ scenarioName = "Bullish Scenario (+50%)"
  /\ calculatedResults # <<>>
  /\ Len(calculatedResults[1].projectedReturns) = 12
  /\ ControlsShown

(***************************************************************************)
(* C24: under every locale of the runtime, the month a call reads from     *)
(* today is one of the abbreviations Jan..Dec, and a period the input      *)
(* history holds for today's calendar month is found by the equality test. *)
(***************************************************************************)
FixedAbbreviations == { monthNames[i] : i \in 1..12 }

C24_PeriodMatchingLocaleStable ==
  calls >= 1 =>
    LET currentMonth == ToLocaleMonthShort(callToday, runtime.locale)
    IN  /\ currentMonth \in FixedAbbreviations
        /\ HasPeriod(callIn, monthNames[callToday.m + 1], callToday.y)
             => HasPeriod(callIn, currentMonth, callToday.y)

(***************************************************************************)
(* C25: a run of the update script to which a source reports a period the  *)
(* table lacks ends with status 0 and exactly one new entry, for that      *)
(* period, at the head of the table; a run to which only periods of the    *)
(* table are reported writes nothing; no run writes more than one entry.   *)
(***************************************************************************)
\* the reports whose calendar period the table does not hold
AbsentReports(table, reports) ==
  { k \in 1..Len(reports) :
      /\ ~reports[k].null
      /\ ~HasPeriod(table, monthNames[reports[k].date.m], reports[k].date.y) }

C25_ScriptWritesOneEntry ==
  exitStatus # NotRun =>
    /\ written <= 1
    /\ Len(feed) = Len(callIn) + written
    /\ IF AbsentReports(callIn, reported) = {}
       THEN feed = callIn
       ELSE /\ exitStatus = 0
            /\ written = 1
            /\ \E k \in AbsentReports(callIn, reported) :
                 /\ feed[1].month = monthNames[reported[k].date.m]
                 /\ feed[1].year = reported[k].date.y
            /\ SubSeq(feed, 2, Len(feed)) = callIn

(***************************************************************************)
(* C26: an entry a call adds for the current period is `estimated` only if *)
(* the 12th of the month, 00:00, has passed, and `announced` only if today *)
(* is 3 to 12 days before the 6th of the month; it is never both; and a    *)
(* call on any other day, with the current period absent from its input,   *)
(* adds no entry for the current period.                                   *)
(***************************************************************************)
\* the head of the output is an entry the call added for today's month
CurrentPeriodAdded ==
  /\ calls >= 1
  /\ Added = 1
  /\ history[1].year = callToday.y
  /\ history[1].month \in {monthNames[callToday.m + 1], monthNamesEs[callToday.m + 1]}

\* the 12th of today's month, 00:00, lies before today
PaymentDayPassed ==
  callToday.d > 12 \/ (callToday.d = 12 /\ callToday.t > 0)

\* today is at least 3 and at most 12 days before the 6th of today's month,
\* 00:00: up to the 3rd, 00:00
InAnnouncementWindow ==
  callToday.d < 3 \/ (callToday.d = 3 /\ callToday.t = 0)

NextPeriodExamined(today) == SetMonth(today, today.m + 1)

C27_NextPeriodFollows ==
  calls >= 1 =>
    /\ NextPeriodExamined(callToday).m = (callToday.m + 1) % 12
    /\ NextPeriodExamined(callToday).y =
         callToday.y + (IF callToday.m = 11 THEN 1 ELSE 0)

(***************************************************************************)
(* C28: an earlyAnnouncement entry is added only by a call whose input     *)
(* holds the current period; a call on or after the 25th whose input lacks *)
(* the current period returns with an `estimated` entry for it in front.   *)
(***************************************************************************)
\* the input of the last call holds an entry for today's calendar month
InputHasCurrentPeriod ==
  HasPeriod(callIn, monthNames[callToday.m + 1], callToday.y)

C28_EarlyOnlyAfterCurrent ==
  calls >= 1 =>
    /\ (Added = 1 /\ history[1].earlyAnnouncement) => InputHasCurrentPeriod
    /\ (~InputHasCurrentPeriod /\ callToday.d >= 25) =>
         /\ CurrentPeriodAdded
         /\ history[1].estimated
         /\ ~history[1].earlyAnnouncement

(***************************************************************************)
(* C29: while a loadData call is in flight, loading is true (and with it   *)
(* the "Refresh Data" button disabled).                                    *)
(***************************************************************************)
\* disabled={loading}
RefreshDisabled == loading

C29_LoadingCoversLoads == inflight > 0 => (loading /\ RefreshDisabled)

(***************************************************************************)
(* C30: once a load has completed and none is in flight, with no error,    *)
(* annualYield is calculateAnnualizedYield of the displayed history and    *)
(* price, and averageMonthlyDividend is the mean of the displayed history, *)
(* in whatever order overlapping loads have completed.                     *)
(***************************************************************************)
LoadsSettled == lastUpdated /\ inflight = 0 /\ error = "null"

C30_StatisticsConsistent ==
  LoadsSettled =>
    /\ annualYield = calculateAnnualizedYield(dividendHistory, priceData)
    /\ IF dividendHistory = <<>> THEN IsNaN(averageMonthlyDividend)
       ELSE NumMul(averageMonthlyDividend, Num(Len(dividendHistory), 1)) =
              SumDividends(dividendHistory, 1)

\* two loads have completed, the timer's among them, and an earlier one had
\* displayed a placeholder the history now displayed does not hold
C30_Witness ==
  /\ LoadsSettled
  /\ refreshCounter = 1
  /\ loadsStarted = 1
  /\ placeholdersShown # PlaceholderPeriods(dividendHistory)
  /\ Len(dividendHistory) > 12

====
